---- MODULE Spec2Model ----
(***************************************************************************)
(* Model of nengo_dl/callbacks.py (NengoSummaries, TensorBoard) and of the *)
(* layer-style use of the tensor graph exercised by tests/test_keras.py.   *)
(***************************************************************************)
EXTENDS Integers, Sequences, FiniteSets, TLC

\* ---------------------------------------------------------------- bounds
MaxObjs == 2     \* longest `objects` list handed to NengoSummaries
MaxCtor == 1     \* constructor calls in one behaviour
MaxCalls == 2    \* on_epoch_end calls in one behaviour
MaxClose == 2    \* on_train_end calls in one behaviour
MaxTrain == 1    \* optimizer updates in one behaviour
MaxRuns == 1     \* deferred-mode simulation runs in one behaviour
MaxEvents == 3   \* inference events one TensorBoard callback receives
MaxProbes == 2   \* probes declared on one network
MaxSteps == 3    \* longest run, in simulation steps

\* ------------------------------------------------------ the nengo objects
\* The objects a caller may pass: an ensemble, its neurons, a connection, and
\* a node (which NengoSummaries does not support).
Objects == {"E1", "N1", "C1", "X1"}

\* The nengo class of each object, as isinstance sees it.
ClassOf(o) ==
  CASE o = "E1" -> "Ensemble"
    [] o = "N1" -> "Neurons"
    [] o = "C1" -> "Connection"
    [] OTHER -> "Node"

\* obj.label as a sequence of characters; <<"None">> is str(None), the label
\* of an object that was given none.  For Neurons the label read is
\* obj.ensemble.label (N1 belongs to E1).
LabelOf(o) ==
  CASE o = "E1" -> <<"a", "#">>
    [] o = "N1" -> <<"a", "#">>
    [] o = "C1" -> <<"None">>
    [] OTHER -> <<"n">>

\* isinstance(obj, (nengo.Ensemble, nengo.ensemble.Neurons, nengo.Connection))
IsSupported(o) == ClassOf(o) \in {"Ensemble", "Neurons", "Connection"}

\* ParamOf with the Neurons branch logging the connection parameter.
ParamOf_NeuronsAsWeights(o) ==
  CASE ClassOf(o) = "Ensemble" -> "encoders"
    [] ClassOf(o) = "Neurons" -> "weights"
    [] ClassOf(o) = "Connection" -> "weights"
    [] OTHER -> "none"

\* The if/elif chain: the parameter logged for an object of each class.
ParamOf(o) ==
  CASE ClassOf(o) = "Ensemble" -> "encoders"
    [] ClassOf(o) = "Neurons" -> "bias"
    [] ClassOf(o) = "Connection" -> "weights"
    [] OTHER -> "none"

\* The if/elif chain: the name prefix, "<Class>_%s" % label.
PrefixOf(o) ==
  CASE ClassOf(o) = "Ensemble" -> <<"Ensemble", "_">> \o LabelOf(o)
    [] ClassOf(o) = "Neurons" -> <<"Ensemble.neurons", "_">> \o LabelOf(o)
    [] ClassOf(o) = "Connection" -> <<"Connection", "_">> \o LabelOf(o)
    [] OTHER -> <<>>

\* Characters utils.sanitize_name removes: those illegal in a log-event path.
IllegalChars == {"#", " ", ":"}

\* utils.sanitize_name: the name without its illegal characters.
RECURSIVE sanitize_name(_)
sanitize_name(s) ==
  IF s = <<>> THEN <<>>
  ELSE IF Head(s) \in IllegalChars THEN sanitize_name(Tail(s))
  ELSE <<Head(s)>> \o sanitize_name(Tail(s))

\* The tuple appended to self.summaries for a supported object.
SummaryEntry(o) ==
  <<sanitize_name(PrefixOf(o) \o <<"_", ParamOf(o)>>), o, ParamOf(o)>>

\* BuildSummaries with the else branch skipping the object instead of raising.
RECURSIVE BuildSummaries_SkipUnsupported(_, _, _)
BuildSummaries_SkipUnsupported(objs, i, acc) ==
  IF i > Len(objs) THEN [raised |-> FALSE, obj |-> "none", summaries |-> acc]
  ELSE IF IsSupported(objs[i])
       THEN BuildSummaries_SkipUnsupported(objs, i + 1,
                                           Append(acc, SummaryEntry(objs[i])))
       ELSE BuildSummaries_SkipUnsupported(objs, i + 1, acc)

\* The loop of __init__ over objects[i..]: acc is self.summaries so far.  It
\* ends either at the end of the list or at the first unsupported object,
\* where ValidationError is raised with that object in its message.
RECURSIVE BuildSummaries(_, _, _)
BuildSummaries(objs, i, acc) ==
  IF i > Len(objs) THEN [raised |-> FALSE, obj |-> "none", summaries |-> acc]
  ELSE IF IsSupported(objs[i])
       THEN BuildSummaries(objs, i + 1, Append(acc, SummaryEntry(objs[i])))
       ELSE [raised |-> TRUE, obj |-> objs[i], summaries |-> acc]

\* ------------------------------------------------------------ the lists
SeqsUpTo(S, n) == UNION {[1..k -> S] : k \in 0..n}
ObjectLists == SeqsUpTo(Objects, MaxObjs)

\* ------------------------------------------------------------- the state
VARIABLES
  inst,         \* "none" | "live": whether NengoSummaries(...) has returned
  ctorObjects,  \* the objects argument of the latest constructor call
  ctorCalls,    \* constructor calls so far
  summaries,    \* self.summaries of the object the latest constructor built
  writer,       \* self.writer of the live instance: "none" | "open" | "closed"
  closeCalls,   \* calls of self.writer.close() so far
  leaked,       \* writers created by constructors that then raised
  log,          \* the event log: records [name, value, step], in write order
  calls,        \* on_epoch_end calls so far
  result,       \* the outcome of the latest telemetry call
  unreadable,   \* the pairs the parameter source could not read at that call
  lookups,      \* the get_params calls the latest on_epoch_end made, in order
  mode,         \* the ambient TensorFlow execution mode: "graph" | "eager"
  params,       \* sim.data: the value of each (object, parameter)
  trained,      \* optimizer updates so far
  simState,     \* the recurrent state of the simulation (steps run)
  runs,         \* the execution mode each simulation run saw
  received,     \* TensorBoard: the inference events received, in order
  invoked,      \* TensorBoard: the training handlers invoked, in order
  netProbes,    \* the probes of the network, in the order they were declared
  minibatch,    \* the simulator's minibatch_size (0 stands for None)
  layerPc,      \* where the layer-style use of the tensor graph stands
  outputs,      \* tensor_graph(inputs): the symbolic outputs
  outputVals,   \* sess.run(outputs, ...): the Output Record
  netSeed,      \* the seed the network was built with
  fullT,        \* full simulation: the steps sim.run_steps has run
  fullX,        \* full simulation: the recurrent state of the ensemble
  fullData      \* full simulation: sim.data, probe -> batch item -> values

telemetryVars ==
  <<inst, ctorObjects, ctorCalls, summaries, writer, closeCalls, leaked, log,
    calls, result, unreadable, lookups, mode>>
simVars == <<params, trained, simState, runs>>
adapterVars == <<received, invoked>>
layerVars ==
  <<netProbes, minibatch, layerPc, outputs, outputVals, netSeed, fullT, fullX,
    fullData>>
vars == <<telemetryVars, simVars, adapterVars, layerVars>>

\* The (object, parameter) pairs the simulator holds values for.
ParamKeys == {<<o, ParamOf(o)>> : o \in {x \in Objects : IsSupported(x)}}

\* The values of a freshly built simulator: one distinct value per pair.
InitParam(k) ==
  CASE k[1] = "E1" -> 10
    [] k[1] = "N1" -> 20
    [] OTHER -> 30

NoResult == [op |-> "none", exc |-> "none", obj |-> "none", epoch |-> -1]

Init ==
  /\ inst = "none"
  /\ ctorObjects = <<>>
  /\ ctorCalls = 0
  /\ summaries = <<>>
  /\ writer = "none"
  /\ closeCalls = 0
  /\ leaked = 0
  /\ log = <<>>
  /\ calls = 0
  /\ result = NoResult
  /\ unreadable = {}
  /\ lookups = <<>>
  /\ mode = "graph"
  /\ params = [k \in ParamKeys |-> InitParam(k)]
  /\ trained = 0
  /\ simState = 0
  /\ runs = <<>>
  /\ received = <<>>
  /\ invoked = <<>>
  /\ netProbes = <<>>
  /\ minibatch = 0
  /\ layerPc = "start"
  /\ outputs = <<>>
  /\ outputVals = <<>>
  /\ netSeed = 0
  /\ fullT = 0
  /\ fullX = 0
  /\ fullData = <<>>

\* ------------------------------------------------- the execution context
\* context.eager_mode().__enter__: remember the ambient mode, switch to eager.
eager_mode_enter(m) == [mode |-> "eager", saved |-> m]

\* eager_mode_exit that leaves the mode the with block ran in.
eager_mode_exit_Leaky(ctx) == ctx.mode

\* context.eager_mode().__exit__: back to the remembered mode, on every exit
\* path of the with block.
eager_mode_exit(ctx) == ctx.saved

\* A whole `with context.eager_mode(): ...` statement, seen from outside.
WithEagerMode(m) == eager_mode_exit(eager_mode_enter(m))

\* ------------------------------------------------------------ __init__
\* The constructor's outcome for an objects list.
CtorOutcome(objs) == BuildSummaries(objs, 1, <<>>)

\* NengoSummaries(log_dir, sim, objects): the writer is created first, then
\* the list is walked.  A raising constructor returns no instance, and its
\* writer stays behind.
Construct(objs) ==
  LET out == CtorOutcome(objs) IN
  /\ inst = "none"
  /\ ctorCalls < MaxCtor
  /\ ctorCalls' = ctorCalls + 1
  /\ ctorObjects' = objs
  /\ mode' = WithEagerMode(mode)
  /\ summaries' = out.summaries
  /\ IF out.raised
     THEN /\ result' = [op |-> "init", exc |-> "ValidationError",
                          obj |-> out.obj, epoch |-> -1]
          /\ leaked' = leaked + 1
          /\ UNCHANGED <<inst, writer>>
     ELSE /\ result' = [op |-> "init", exc |-> "none", obj |-> "none",
                          epoch |-> -1]
          /\ inst' = "live"
          /\ writer' = "open"
          /\ UNCHANGED leaked
  /\ UNCHANGED <<closeCalls, log, calls, unreadable, lookups>>
  /\ UNCHANGED <<simVars, adapterVars, layerVars>>

\* -------------------------------------------------------- on_epoch_end
\* [(obj, attr) for _, obj, attr in self.summaries]
Request(s) == [i \in 1..Len(s) |-> <<s[i][2], s[i][3]>>]

\* Lookups with one get_params call per entry, made as the entries are written.
Lookups_PerEntry(s) ==
  [i \in 1..Len(s) |-> [request |-> <<Request(s)[i]>>, written |-> i - 1]]

\* The get_params calls of one on_epoch_end: a single call with the whole
\* request, made before the with block, when no record of the epoch is
\* written yet.
Lookups(s) == <<[request |-> Request(s), written |-> 0]>>

\* sim.data.get_params(*request): one value per requested pair, in the order
\* requested; it raises when a requested pair cannot be read (`failing`).
get_params(p, req, failing) ==
  IF \E i \in 1..Len(req) : req[i] \in failing
  THEN [raised |-> TRUE, vals |-> <<>>]
  ELSE [raised |-> FALSE, vals |-> [i \in 1..Len(req) |-> p[req[i]]]]

Min(a, b) == IF a <= b THEN a ELSE b

\* Histograms with the values taken from the other end of summary_vals.
Histograms_Reversed(s, vals, epoch) ==
  [i \in 1..Min(Len(s), Len(vals)) |->
     [name |-> s[i][1], value |-> vals[Len(vals) + 1 - i], step |-> epoch]]

\* for (name, _, _), val in zip(self.summaries, summary_vals):
\*     tf.summary.histogram(name, val, step=epoch)
Histograms(s, vals, epoch) ==
  [i \in 1..Min(Len(s), Len(vals)) |->
     [name |-> s[i][1], value |-> vals[i], step |-> epoch]]

\* EpochOutcome with an unreadable parameter skipped and the others written.
EpochOutcome_SkipFailed(s, p, failing, epoch) ==
  LET readable == SelectSeq(s, LAMBDA e : <<e[2], e[3]>> \notin failing)
      look == get_params(p, Request(readable), {})
  IN [exc |-> "none", records |-> Histograms(readable, look.vals, epoch)]

\* The body of on_epoch_end up to the writes: the lookup comes first, and an
\* error it raises leaves the method before the with block is entered.
EpochOutcome(s, p, failing, epoch) ==
  LET look == get_params(p, Request(s), failing) IN
  IF look.raised
  THEN [exc |-> "LookupError", records |-> <<>>]
  ELSE [exc |-> "none", records |-> Histograms(s, look.vals, epoch)]

\* What the TensorFlow writer does when it is used after close(): depending on
\* the TensorFlow build it raises its closed-writer error or returns without
\* effect.  Nothing in callbacks.py looks at the writer's state first.
LibOutcomes == {"WriterClosedError", "none"}

\* on_epoch_end(epoch), what it computes and writes: `failing` is what the
\* parameter source cannot read at this call, `lib` the writer library's answer
\* when the writer is closed.
EpochEndBody(epoch, failing) ==
  LET out == EpochOutcome(summaries, params, failing, epoch) IN
  /\ inst = "live"
  /\ calls < MaxCalls
  /\ calls' = calls + 1
  /\ unreadable' = failing
  /\ lookups' = Lookups(summaries)
  /\ IF out.exc # "none"
     THEN /\ result' = [op |-> "on_epoch_end", exc |-> out.exc, obj |-> "none",
                        epoch |-> epoch]
          /\ UNCHANGED <<log, mode>>
     ELSE /\ mode' = WithEagerMode(mode)
          /\ IF writer = "open"
             THEN /\ log' = log \o out.records
                  /\ result' = [op |-> "on_epoch_end", exc |-> "none",
                                obj |-> "none", epoch |-> epoch]
             ELSE /\ log' = log
                  /\ \E lib \in LibOutcomes :
                       result' = [op |-> "on_epoch_end", exc |-> lib,
                                  obj |-> "none", epoch |-> epoch]

\* on_epoch_end that consumes self.summaries as it writes them.
on_epoch_end_Draining(epoch, failing) ==
  /\ EpochEndBody(epoch, failing)
  /\ summaries' = <<>>
  /\ UNCHANGED <<inst, ctorObjects, ctorCalls, writer, closeCalls, leaked>>
  /\ UNCHANGED <<simVars, adapterVars, layerVars>>

\* on_epoch_end(epoch): besides the log, the mode and the call's outcome it
\* assigns nothing: not a field of self, not a value of the simulator.
on_epoch_end(epoch, failing) ==
  /\ EpochEndBody(epoch, failing)
  /\ UNCHANGED <<inst, ctorObjects, ctorCalls, summaries, writer, closeCalls,
                 leaked>>
  /\ UNCHANGED <<simVars, adapterVars, layerVars>>

\* -------------------------------------------------------- on_train_end
\* on_train_end(): self.writer.close() is called whatever the writer's state.
on_train_end ==
  /\ inst = "live"
  /\ closeCalls < MaxClose
  /\ closeCalls' = closeCalls + 1
  /\ mode' = WithEagerMode(mode)
  /\ writer' = "closed"
  /\ \E lib \in (IF writer = "open" THEN {"none"} ELSE LibOutcomes) :
       result' = [op |-> "on_train_end", exc |-> lib, obj |-> "none",
                  epoch |-> -1]
  /\ UNCHANGED <<inst, ctorObjects, ctorCalls, summaries, leaked, log, calls,
                 unreadable, lookups>>
  /\ UNCHANGED <<simVars, adapterVars, layerVars>>

\* ------------------------------------------------------------ the driver
\* One optimizer update between epochs: every learned parameter changes.
Train ==
  /\ trained < MaxTrain
  /\ trained' = trained + 1
  /\ params' = [k \in ParamKeys |-> params[k] + 1]
  /\ UNCHANGED <<simState, runs>>
  /\ UNCHANGED <<telemetryVars, adapterVars, layerVars>>

\* One run of the simulation: it executes in the ambient mode and advances the
\* recurrent state; `after` tells whether telemetry calls were made before it.
SimRun ==
  /\ Len(runs) < MaxRuns
  /\ runs' = Append(runs, [mode |-> mode, after |-> ctorCalls + calls + closeCalls > 0])
  /\ simState' = simState + 1
  /\ UNCHANGED <<params, trained>>
  /\ UNCHANGED <<telemetryVars, adapterVars, layerVars>>

\* What the parameter source may fail to read at one call: nothing, or one pair.
FailSets == {{}} \cup {{k} : k \in ParamKeys}

\* The epoch indices the driver passes.
Epochs == {0, 1}

\* The three telemetry calls, with every input they can be given.
Telemetry ==
  \/ \E objs \in ObjectLists : Construct(objs)
  \/ \E epoch \in Epochs, failing \in FailSets : on_epoch_end(epoch, failing)
  \/ on_train_end

\* Training: telemetry calls between optimizer updates.
Next == Telemetry \/ Train

Spec == Init /\ [][Next]_vars

\* Simulation: telemetry calls between deferred-mode simulation runs.
NextModes == Telemetry \/ SimRun

SpecModes == Init /\ [][NextModes]_vars

\* ------------------------------------------------------------ TensorBoard
\* The positional and keyword arguments Keras hands to a callback method.
ArgLists == {<<>>, <<0>>, <<0, "logs">>}
KwArgs == {{}, {<<"logs", "l">>}}

\* self.on_batch_end(*args, **kwargs) and its two siblings: the call made on
\* the inherited training handler.
Forward(handler, args, kwargs) ==
  [handler |-> handler, args |-> args, kwargs |-> kwargs]

\* The event a TensorBoard method was called for.
Event(name, args, kwargs) == [event |-> name, args |-> args, kwargs |-> kwargs]

\* on_predict_batch_end with the keyword arguments left out of the call.
on_predict_batch_end_NoKwargs(args, kwargs) ==
  /\ Len(received) < MaxEvents
  /\ received' = Append(received, Event("predict_batch_end", args, kwargs))
  /\ invoked' = Append(invoked, Forward("on_batch_end", args, {}))
  /\ UNCHANGED <<telemetryVars, simVars, layerVars>>

\* on_predict_batch_end(*args, **kwargs): self.on_batch_end(*args, **kwargs)
on_predict_batch_end(args, kwargs) ==
  /\ Len(received) < MaxEvents
  /\ received' = Append(received, Event("predict_batch_end", args, kwargs))
  /\ invoked' = Append(invoked, Forward("on_batch_end", args, kwargs))
  /\ UNCHANGED <<telemetryVars, simVars, layerVars>>

\* on_predict_begin(*args, **kwargs): self.on_train_begin(*args, **kwargs)
on_predict_begin(args, kwargs) ==
  /\ Len(received) < MaxEvents
  /\ received' = Append(received, Event("predict_begin", args, kwargs))
  /\ invoked' = Append(invoked, Forward("on_train_begin", args, kwargs))
  /\ UNCHANGED <<telemetryVars, simVars, layerVars>>

\* on_predict_end(*args, **kwargs): self.on_train_end(*args, **kwargs)
on_predict_end(args, kwargs) ==
  /\ Len(received) < MaxEvents
  /\ received' = Append(received, Event("predict_end", args, kwargs))
  /\ invoked' = Append(invoked, Forward("on_train_end", args, kwargs))
  /\ UNCHANGED <<telemetryVars, simVars, layerVars>>

NextAdapter ==
  \E args \in ArgLists, kwargs \in KwArgs :
    \/ on_predict_batch_end(args, kwargs)
    \/ on_predict_begin(args, kwargs)
    \/ on_predict_end(args, kwargs)

SpecAdapter == Init /\ [][NextAdapter]_vars

\* ------------------------------------------- the tensor graph as a layer
\* The probes a network may declare, and the dimension each observes.
Probes == {"p_a", "p_b", "p_c"}
DimOf(p) == IF p = "p_c" THEN 2 ELSE 1

\* Lists of distinct probes: a probe is declared once.
ProbeLists ==
  {l \in SeqsUpTo(Probes, MaxProbes) :
     \A i, j \in 1..Len(l) : i # j => l[i] # l[j]}

\* @pytest.mark.parametrize("minibatch_size", (None, 1, 3)), None as 0.
MinibatchSizes == {0, 1, 3}

\* The minibatch dimension of the arrays: 1 when no size was given.
EffectiveMinibatch(m) == IF m = 0 THEN 1 ELSE m

\* tensor_graph(inputs) with the outputs in reverse declaration order.
tensor_graph_call_Reversed(probes) ==
  [i \in 1..Len(probes) |->
     [probe |-> probes[Len(probes) + 1 - i],
      dim |-> DimOf(probes[Len(probes) + 1 - i])]]

\* tensor_graph(inputs): one output tensor per declared probe, in the order
\* the probes were declared.
tensor_graph_call(probes) ==
  [i \in 1..Len(probes) |-> [probe |-> probes[i], dim |-> DimOf(probes[i])]]

\* The seeds a network may be built with.
Seeds == {0, 1}

\* Node a, lambda t: np.sin(20 * np.pi * t), at step t: one period of the
\* wave every four steps, in scaled integer units.
NodeOut(t) ==
  CASE t % 4 = 1 -> 4
    [] t % 4 = 2 -> 0
    [] t % 4 = 3 -> -4
    [] OTHER -> 0

\* One step of ensemble b: its recurrent state filters the input it gets over
\* the connection, with the gain its seed gave it.
EnsStep(x, in, sd) == (x + (sd + 1) * in) \div 2

\* What a probe observes in one step: p_a the node's output, p_b the
\* ensemble's state, p_c both.
ProbeValue(p, in, x) ==
  CASE p = "p_a" -> <<in>>
    [] p = "p_b" -> <<x>>
    [] OTHER -> <<in, x>>

\* Unroll with every step started from the initial state.
RECURSIVE Unroll_Stateless(_, _, _, _, _, _)
Unroll_Stateless(p, sd, t, n, x, acc) ==
  IF t > n THEN acc
  ELSE LET in == NodeOut(t)
           x2 == EnsStep(0, in, sd)
       IN Unroll_Stateless(p, sd, t + 1, n, x2,
                           Append(acc, ProbeValue(p, in, x2)))

\* The layer call over a feed of n steps: steps t..n unrolled inside the one
\* call, the recurrent state x carried from step to step; acc is the probe's
\* output so far.
RECURSIVE Unroll(_, _, _, _, _, _)
Unroll(p, sd, t, n, x, acc) ==
  IF t > n THEN acc
  ELSE LET in == NodeOut(t)
           x2 == EnsStep(x, in, sd)
       IN Unroll(p, sd, t + 1, n, x2, Append(acc, ProbeValue(p, in, x2)))

\* sess.run(fetches, feed_dict): one array per fetch, in fetch order, of
\* shape (minibatch, steps, dimension); the input is the same for every item
\* of the minibatch.
sess_run(fetches, m, steps, sd) ==
  [i \in 1..Len(fetches) |->
     [probe |-> fetches[i].probe,
      shape |-> <<EffectiveMinibatch(m), steps, fetches[i].dim>>,
      data |-> [b \in 1..EffectiveMinibatch(m) |->
                  Unroll(fetches[i].probe, sd, 1, steps, 0, <<>>)]]]

\* The probes of a list, as a set.
ProbeSet(probes) == {probes[i] : i \in 1..Len(probes)}

\* with nengo.Network(seed=seed) ...; with Simulator(net, minibatch_size=...)
BuildNetwork(probes, m, sd) ==
  /\ layerPc = "start"
  /\ layerPc' = "built"
  /\ netProbes' = probes
  /\ minibatch' = m
  /\ netSeed' = sd
  /\ fullT' = 0
  /\ fullX' = 0
  /\ fullData' = [p \in ProbeSet(probes) |->
                    [b \in 1..EffectiveMinibatch(m) |-> <<>>]]
  /\ UNCHANGED <<outputs, outputVals>>
  /\ UNCHANGED <<telemetryVars, simVars, adapterVars>>

\* One step of sim.run_steps(n_steps) in the full simulator: the recurrent
\* state advances and every probe's data grows by the step's value.
RunStep ==
  LET in == NodeOut(fullT + 1)
      x2 == EnsStep(fullX, in, netSeed)
  IN /\ layerPc = "built"
     /\ fullT < MaxSteps
     /\ fullT' = fullT + 1
     /\ fullX' = x2
     /\ fullData' = [p \in DOMAIN fullData |->
                       [b \in DOMAIN fullData[p] |->
                          Append(fullData[p][b], ProbeValue(p, in, x2))]]
     /\ UNCHANGED <<netProbes, minibatch, layerPc, outputs, outputVals, netSeed>>
     /\ UNCHANGED <<telemetryVars, simVars, adapterVars>>

\* inputs = tensor_graph.build_inputs(); outputs = tensor_graph(inputs), in
\* the second simulator, once the first has run its steps.
CallLayer ==
  /\ layerPc = "built"
  /\ fullT >= 1
  /\ layerPc' = "called"
  /\ outputs' = tensor_graph_call(netProbes)
  /\ UNCHANGED <<netProbes, minibatch, outputVals, netSeed, fullT, fullX,
                 fullData>>
  /\ UNCHANGED <<telemetryVars, simVars, adapterVars>>

\* output_vals = sess.run(outputs, feed_dict=_fill_feed(n_steps)), with the
\* n_steps the full simulator ran.
RunLayer(steps) ==
  /\ layerPc = "called"
  /\ steps = fullT
  /\ layerPc' = "ran"
  /\ outputVals' = sess_run(outputs, minibatch, steps, netSeed)
  /\ UNCHANGED <<netProbes, minibatch, outputs, netSeed, fullT, fullX,
                 fullData>>
  /\ UNCHANGED <<telemetryVars, simVars, adapterVars>>

NextLayer ==
  \/ \E probes \in ProbeLists, m \in MinibatchSizes, sd \in Seeds :
        BuildNetwork(probes, m, sd)
  \/ RunStep
  \/ CallLayer
  \/ \E steps \in 1..MaxSteps : RunLayer(steps)

SpecLayer == Init /\ [][NextLayer]_vars

\* ================================================================ claims
\* The summary entries a caller can reach: those of the instance it holds.
Registered == IF inst = "live" THEN summaries ELSE <<>>

\* The value the parameter source holds for a summary entry.
ValueOf(e) == params[<<e[2], e[3]>>]

\* A step that is a telemetry call / an on_epoch_end call.
TelemetryStep ==
  ctorCalls' # ctorCalls \/ calls' # calls \/ closeCalls' # closeCalls
EpochStep == calls' = calls + 1

\* C1 (as claimed): once on_train_end has returned, the writer has been closed
\* exactly once, every later on_train_end or on_epoch_end fails with
\* WriterClosedError, and the log no longer grows.
C1_ClosedWriterRejectsCalls ==
  /\ [](/\ closeCalls <= 1
        /\ (writer = "closed" /\ result.op = "on_epoch_end")
             => result.exc = "WriterClosedError"
        /\ (result.op = "on_train_end" /\ closeCalls > 1)
             => result.exc = "WriterClosedError")
  /\ [][writer = "closed" => log' = log]_vars

\* C2: a constructor given a list with an unsupported object raises
\* ValidationError naming the first such object, and leaves no instance, hence
\* no registered entry, whatever preceded that object in the list.
FirstUnsupported(objs) ==
  objs[CHOOSE i \in 1..Len(objs) :
         /\ ~IsSupported(objs[i])
         /\ \A j \in 1..(i - 1) : IsSupported(objs[j])]

C2_UnsupportedObjectFailsConstruction ==
  (result.op = "init" /\ \E i \in 1..Len(ctorObjects) : ~IsSupported(ctorObjects[i]))
    => /\ result.exc = "ValidationError"
       /\ result.obj = FirstUnsupported(ctorObjects)
       /\ inst = "none"
       /\ Registered = <<>>

\* C2 witness: construction failed on an object that followed a valid one.
C2_Witness ==
  /\ result.op = "init"
  /\ result.exc = "ValidationError"
  /\ Len(ctorObjects) = 2
  /\ IsSupported(ctorObjects[1])
  /\ result.obj = ctorObjects[2]

\* C3: a constructor given only supported objects returns an instance with
\* one entry per object, in list order, whose parameter is encoders for an
\* Ensemble, bias for Neurons and weights for a Connection.
KindFor(o) ==
  IF ClassOf(o) = "Ensemble" THEN "encoders"
  ELSE IF ClassOf(o) = "Neurons" THEN "bias"
  ELSE "weights"

C3_OneEntryPerObjectInOrder ==
  /\ (result.op = "init" /\ \A i \in 1..Len(ctorObjects) : IsSupported(ctorObjects[i]))
       => inst = "live"
  /\ inst = "live" =>
       /\ Len(Registered) = Len(ctorObjects)
       /\ \A i \in 1..Len(ctorObjects) :
            /\ Registered[i][2] = ctorObjects[i]
            /\ Registered[i][3] = KindFor(ctorObjects[i])

\* C3 witness: Telemetry([E, C]) registered encoders, then weights.
C3_Witness ==
  /\ inst = "live"
  /\ ctorObjects = <<"E1", "C1">>
  /\ Len(Registered) = 2
  /\ Registered[1][3] = "encoders"
  /\ Registered[2][3] = "weights"

\* C4: a successful on_epoch_end(epoch) on an open writer appends exactly one
\* record per registered entry, in order, carrying that entry's name, the
\* value the parameter source holds for that entry, and step = epoch.
C4_OneRecordPerEntry ==
  [][(EpochStep /\ writer = "open" /\ result'.exc = "none")
       => log' = log \o [i \in 1..Len(Registered) |->
                           [name |-> Registered[i][1],
                            value |-> ValueOf(Registered[i]),
                            step |-> result'.epoch]]]_vars

\* C4 witness: two entries were written at step 1 with different values.
C4_Witness ==
  /\ result.op = "on_epoch_end"
  /\ result.exc = "none"
  /\ Len(Registered) = 2
  /\ Len(log) = 2
  /\ log[1].step = 1
  /\ log[1].value # log[2].value
  /\ log[1].name # log[2].name

\* C5: an on_epoch_end call during which the lookup of a registered parameter
\* fails raises that error and leaves the log as it was.
C5_FailedLookupWritesNothing ==
  [][(EpochStep /\ \E i \in 1..Len(Registered) :
                     <<Registered[i][2], Registered[i][3]>> \in unreadable')
       => (log' = log /\ result'.exc = "LookupError")]_vars

\* C5 witness: a lookup failed on one of two entries, after an epoch was
\* written.
C5_Witness ==
  /\ result.op = "on_epoch_end"
  /\ result.exc = "LookupError"
  /\ Len(Registered) = 2
  /\ <<Registered[1][2], Registered[1][3]>> \notin unreadable
  /\ <<Registered[2][2], Registered[2][3]>> \in unreadable
  /\ Len(log) = 2

\* C6 (as claimed): no two registered entries carry the same sanitized name.
C6_NamesUnique ==
  \A i, j \in 1..Len(Registered) :
    i # j => Registered[i][1] # Registered[j][1]

\* C7: every telemetry call leaves the ambient mode and the simulation's
\* recurrent state as they were, so the mode is deferred at every call
\* boundary and every simulation run executes in deferred mode.
C7_EagerModeIsScoped ==
  /\ [](mode = "graph" /\ \A i \in 1..Len(runs) : runs[i].mode = "graph")
  /\ [][TelemetryStep => (mode' = mode /\ simState' = simState)]_vars

\* C7 witness: a simulation ran after telemetry calls that wrote and closed.
C7_Witness ==
  /\ Len(runs) >= 1
  /\ runs[Len(runs)].after
  /\ writer = "closed"
  /\ Len(log) >= 1

\* C8: an on_epoch_end call changes neither a parameter value nor the
\* registered entries.
C8_EpochEndReadsOnly ==
  [][EpochStep => (params' = params /\ summaries' = summaries)]_vars

\* C8 witness: an epoch was written after the parameters had been trained.
C8_Witness ==
  /\ result.op = "on_epoch_end"
  /\ trained >= 1
  /\ Len(log) >= 1
  /\ log[Len(log)].value = ValueOf(Registered[Len(Registered)])

\* C9: the handlers invoked are, event for event and in the same order, the
\* training handlers of the inference events received (begin -> train begin,
\* batch end -> batch end, end -> train end), each with exactly the
\* positional and keyword arguments of its event.
TrainingHandler(event) ==
  IF event = "predict_begin" THEN "on_train_begin"
  ELSE IF event = "predict_batch_end" THEN "on_batch_end"
  ELSE "on_train_end"

C9_PureDelegation ==
  /\ Len(invoked) = Len(received)
  /\ \A i \in 1..Len(received) :
       /\ invoked[i].handler = TrainingHandler(received[i].event)
       /\ invoked[i].args = received[i].args
       /\ invoked[i].kwargs = received[i].kwargs

\* C9 witness: begin, batch end, end were received with different arguments.
C9_Witness ==
  /\ Len(received) = 3
  /\ received[1].event = "predict_begin"
  /\ received[2].event = "predict_batch_end"
  /\ received[2].args = <<0, "logs">>
  /\ received[2].kwargs # {}
  /\ received[3].event = "predict_end"
  /\ Len(invoked) = 3

\* C10: the Output Record of a layer call has exactly one tensor per
\* declared probe, the i-th belonging to the i-th probe declared, for every
\* minibatch size.
C10_OneOutputPerProbeInOrder ==
  layerPc = "ran" =>
    /\ Len(outputVals) = Len(netProbes)
    /\ \A i \in 1..Len(netProbes) : outputVals[i].probe = netProbes[i]

\* C10 witness: the network with probes p_a then p_b, run with minibatch 3.
C10_Witness ==
  /\ layerPc = "ran"
  /\ netProbes = <<"p_a", "p_b">>
  /\ minibatch = 3
  /\ Len(outputVals) = 2
  /\ outputVals[1].probe = "p_a"
  /\ outputVals[2].probe = "p_b"

\* C12: every on_epoch_end call makes exactly one get_params call, whose
\* request holds the (object, parameter) pair of each registered entry, entry
\* by entry in registration order, and which is made before any record of
\* that epoch is written.
C12_OneBatchedLookup ==
  [][EpochStep =>
       /\ Len(lookups') = 1
       /\ Len(lookups'[1].request) = Len(Registered)
       /\ \A i \in 1..Len(Registered) :
            lookups'[1].request[i] = <<Registered[i][2], Registered[i][3]>>
       /\ lookups'[1].written = 0]_vars

\* C12 witness: one lookup served an epoch that wrote two records.
C12_Witness ==
  /\ result.op = "on_epoch_end"
  /\ result.exc = "none"
  /\ Len(Registered) = 2
  /\ Len(log) = 2
  /\ Len(lookups) = 1
  /\ Len(lookups[1].request) = 2

\* C13 (as claimed): every writer that is open belongs to a constructed
\* instance, which can close it through on_train_end; a constructor that
\* raised left none behind.
C13_NoWriterWithoutInstance ==
  /\ leaked = 0
  /\ writer = "open" => inst = "live"

\* np.allclose of two arrays (batch item -> step -> component): the same
\* extent, and every component equal at the resolution of the model's values.
AllClose(x, y) ==
  /\ DOMAIN x = DOMAIN y
  /\ \A b \in DOMAIN x :
       /\ Len(x[b]) = Len(y[b])
       /\ \A t \in 1..Len(x[b]) : x[b][t] = y[b][t]

\* C11: for the same network, seed, step count and minibatch size, the
\* values the layer call yields for each probe equal the data the full
\* simulation collected for that probe over the same steps.
C11_LayerMatchesFullSimulation ==
  layerPc = "ran" =>
    \A i \in 1..Len(netProbes) :
      /\ i <= Len(outputVals)
      /\ AllClose(outputVals[i].data, fullData[netProbes[i]])

\* C11 witness: p_a and p_b over three steps with minibatch 3, the ensemble's
\* state having changed along the way.
C11_Witness ==
  /\ layerPc = "ran"
  /\ netProbes = <<"p_a", "p_b">>
  /\ minibatch = 3
  /\ fullT = 3
  /\ Len(outputVals[2].data[3]) = 3
  /\ outputVals[2].data[3][1] # outputVals[2].data[3][3]
  /\ outputVals[2].data = fullData["p_b"]

====
